---- MODULE Spec2Model ----
(***************************************************************************)
(* Reddit messenger automation: the single run (index.js redditMessenger)  *)
(* and the batch run (optimizedBatch.js processOptimizedBatch) over the    *)
(* shared utilities of redditUtils.js (initBrowser, loginToReddit,         *)
(* handleCaptchaIfPresent, verifyLoginSuccess, sendMessageToUser,          *)
(* saveResults).  One run is one sequential process; every await on a      *)
(* browser primitive is a step whose result (the page content it sees, or  *)
(* the error it raises) is drawn from the environment.                     *)
(***************************************************************************)
EXTENDS Integers, Sequences, FiniteSets, TLC

(* ------------------------------ bounds --------------------------------- *)

\* Longest users file (in lines) the batch run reads.
MaxLines == 3

(* ------------------------- program constants --------------------------- *)

\* optimizedBatch.js: const delay = options.delay || 30000
DefaultDelay == 30000

\* index.js DEFAULT_CONFIG.captchaApiKey
DefaultCaptchaApiKey == "YOUR_CAPTCHA_API_KEY_HERE"

\* Error messages raised by the code.
ErrLoginButton == "Login button not found after comprehensive search"
ErrCaptchaNoKey == "CAPTCHA challenge detected but no 2Captcha API key configured"
ErrSitekey == "CAPTCHA sitekey not found"
ErrVerify == "Login verification failed - incorrect credentials or Reddit is blocking the login"
ErrNotFound == "User not found"
ErrSuspended == "User account suspended"
ErrNoChat == "Chat button not found or user has disabled messaging"
ErrNotChatPage == "Not on chat page"
ErrDelivery == "Message delivery failed - Reddit may have blocked the message"

\* Errors raised by the collaborators (puppeteer, fs, the 2captcha solver).
ErrBrowser == "browser primitive failed"
ErrLaunch == "browser launch failed"
ErrRead == "users file unreadable"
ErrWrite == "results file not written"
ErrSolver == "solver service failed"
ErrNullClick == "TypeError: click of null"
ErrClose == "browser close failed"

(* ----------------------------- inputs ---------------------------------- *)

\* The lines a users file is made of: names, padded names, blank lines,
\* comment lines.
FileLines ==
  { <<>>, <<" ">>, <<"A">>, <<"B">>, <<" ", "A">>, <<"B", " ">>,
    <<"#">>, <<"#", "A">>, <<" ", "#">> }

\* Target names of a single run.
Targets == { <<"A">>, <<"B">> }

\* What the caller passes as captchaApiKey: nothing, an empty key, a key.
CallerKeys == {"absent", "", "KEY"}

\* The batch caller: no key (the command line of optimizedBatch.js passes
\* none) or a key.
BatchCallerKeys == {"absent", "KEY"}

\* What the caller passes as delay (ms): nothing (<<>>), zero, a positive
\* value.
CallerDelays == { <<>>, <<0>>, <<5000>> }

SeqsUpTo(S, n) == UNION { [1..k -> S] : k \in 0..n }

(* ------------------------------ state ---------------------------------- *)

VARIABLES
  mode,      \* "single" (redditMessenger) or "batch" (processOptimizedBatch)
  options,   \* the options the run works with
  target,    \* single run: targetUser
  users,     \* batch run: the parsed target list
  pc,        \* position of the run
  browser,   \* the orchestrator's local `browser`: "null" or "handle"
  lv,        \* locals of loginToReddit and of the functions it calls
  page,      \* the page content as last seen by a page.evaluate
  error,     \* the error being propagated, "none" if none
  i,         \* batch loop index (0-based, as in the code)
  results,   \* batch: results = {success, failed}
  delay,     \* batch: the local `delay`
  calls,     \* how often each collaborator or function was invoked
  waits,     \* the pacing delays slept so far, in order
  attempts,  \* the sendMessageToUser calls so far: <<user, outcome>>
  saved,     \* the records written by saveResults, in order
  outcome,   \* "running", "returned" or "thrown"
  usersData, \* the lines of the users file, where the run shows its input
  sv         \* locals of sendMessageToUser and of the functions it calls

vars == <<mode, options, target, users, pc, browser, lv, page, error, i,
          results, delay, calls, waits, attempts, saved, outcome, usersData,
          sv>>

NoCalls ==
  [load |-> 0, launch |-> 0, close |-> 0, login |-> 0, loginOk |-> 0,
   send |-> 0, save |-> 0]

Bump(c, f) == [c EXCEPT ![f] = @ + 1]

\* Locals of loginToReddit / handleCaptchaIfPresent / verifyLoginSuccess
\* before the call; the counters say how often, within this login, the
\* credentials were filled, a submit control was triggered, the solving
\* service was called, a token was injected, the challenge form was
\* submitted, and the two verification scripts were run; `thrown` is the
\* error loginToReddit raised, `evalThrew` whether a verification script
\* raised one, `timedOut` the bounded wait whose timeout elapsed.
NoLocals ==
  [solver |-> "null", clicked |-> FALSE, captchaRequired |-> FALSE,
   sitekey |-> "null", token |-> "none",
   urlIndicatesSuccess |-> FALSE, domSuccess |-> FALSE,
   first |-> [kind |-> "none"], evalThrew |-> FALSE, loginSuccess |-> FALSE,
   thrown |-> "none", timedOut |-> "none",
   creds |-> 0, submit |-> 0, solverCalls |-> 0, injected |-> 0,
   captchaSubmit |-> 0, verifyCalls |-> 0, retries |-> 0]

BlankPage == [kind |-> "blank"]

\* JavaScript truthiness of a captchaApiKey value.
Truthy(k) == k \notin {"undefined", ""}

\* index.js: options = { ...DEFAULT_CONFIG, ...config }
MergeConfig(callerKey) ==
  IF callerKey = "absent" THEN DefaultCaptchaApiKey ELSE callerKey

\* optimizedBatch.js: options = {} default, options.captchaApiKey read as is.
BatchKey(callerKey) ==
  IF callerKey = "absent" THEN "undefined" ELSE callerKey

\* The locals of sendMessageToUser and sendMessageInChatInterface before the
\* call: `result` is "ok" once it returned true, else the error it threw;
\* `timedOut` the bounded wait whose timeout elapsed; the counters say how
\* often extractChatUrl was called, the chat address was navigated to, the
\* compose script ran, the text was typed through the keyboard, a send
\* control was clicked and Enter was pressed.
NoSend ==
  [result |-> "none", timedOut |-> "none", userStatus |-> "none",
   chatUrl |-> [by |-> 0, el |-> 0, href |-> "none"],
   messageSent |-> FALSE, sendButtonClicked |-> FALSE,
   deliveryStatus |-> "none",
   extractCalls |-> 0, chatNav |-> 0, composeEvals |-> 0, typed |-> 0,
   clicks |-> 0, enters |-> 0]

\* The start of a run, but for the two variables that show its inputs.
InitRun ==
  /\ mode \in {"single", "batch"}
  /\ options \in
       IF mode = "single"
         THEN { [captchaApiKey |-> MergeConfig(k), delay |-> <<>>] :
                  k \in CallerKeys }
         ELSE { [captchaApiKey |-> BatchKey(k), delay |-> d] :
                  k \in BatchCallerKeys, d \in CallerDelays }
  /\ target \in (IF mode = "single" THEN Targets ELSE { <<>> })
  /\ users = <<>>
  /\ pc = IF mode = "single" THEN "init_launch" ELSE "load"
  /\ browser = "null"
  /\ lv = NoLocals
  /\ page = BlankPage
  /\ error = "none"
  /\ i = 0
  /\ results = [success |-> <<>>, failed |-> <<>>]
  /\ delay = 0
  /\ calls = NoCalls
  /\ waits = <<>>
  /\ attempts = <<>>
  /\ saved = <<>>
  /\ outcome = "running"

Init ==
  /\ InitRun
  /\ usersData = <<>>
  /\ sv = NoSend

(* --------------------------- error routing ------------------------------ *)

\* An error thrown inside the orchestrator's try block lands in its catch.
CatchPc == IF mode = "single" THEN "s_catch" ELSE "b_catch"

Throw(e) ==
  /\ pc' = CatchPc
  /\ error' = e

(* --------------------------- users file -------------------------------- *)

RECURSIVE TrimStart(_)
TrimStart(s) ==
  IF s = <<>> THEN <<>>
  ELSE IF Head(s) = " " THEN TrimStart(Tail(s)) ELSE s

RECURSIVE TrimEnd(_)
TrimEnd(s) ==
  IF s = <<>> THEN <<>>
  ELSE IF s[Len(s)] = " " THEN TrimEnd(SubSeq(s, 1, Len(s) - 1)) ELSE s

\* line.trim()
Trim(s) == TrimEnd(TrimStart(s))

\* Variant: the filter keeps every non-empty line.
KeepLineNonEmpty(s) == s # <<>>

\* line && !line.startsWith('#')
KeepLine(s) == s # <<>> /\ Head(s) # "#"

\* usersData.split('\n').map(trim).filter(...)
ParseUsers(lines) == SelectSeq([k \in 1..Len(lines) |-> Trim(lines[k])], KeepLine)

\* Lines 21-27 when readFile returned `lines`.
LoadFrom(lines) ==
  /\ users' = ParseUsers(lines)
  /\ pc' = "init_launch"
  /\ error' = error

\* processOptimizedBatch: read and parse the users file.
LoadUsers ==
  /\ pc = "load"
  /\ calls' = Bump(calls, "load")
  /\ \/ \E lines \in SeqsUpTo(FileLines, MaxLines) : LoadFrom(lines)
     \/ /\ Throw(ErrRead)
        /\ users' = users
  /\ UNCHANGED <<usersData, sv, mode, options, target, browser, lv, page, i, results, delay,
                 waits, attempts, saved, outcome>>

(* --------------------------- initBrowser ------------------------------- *)

\* initBrowser: puppeteer.launch(launchOptions).
InitLaunch ==
  /\ pc = "init_launch"
  /\ \/ /\ calls' = Bump(calls, "launch")
        /\ pc' = "init_page"
        /\ error' = error
     \/ /\ Throw(ErrLaunch)
        /\ calls' = calls
  /\ UNCHANGED <<usersData, sv, mode, options, target, users, browser, lv, page, i, results,
                 delay, waits, attempts, saved, outcome>>

\* initBrowser: newPage, setViewport, setUserAgent, return {browser, page};
\* the caller assigns its local `browser` only from the returned value.
InitPage ==
  /\ pc = "init_page"
  /\ \/ /\ browser' = "handle"
        /\ pc' = "login"
        /\ error' = error
     \/ /\ Throw(ErrBrowser)
        /\ browser' = browser
  /\ UNCHANGED <<usersData, sv, mode, options, target, users, lv, page, i, results, delay,
                 calls, waits, attempts, saved, outcome>>

(* --------------------------- loginToReddit ----------------------------- *)

\* Variant: the catch of loginToReddit logs the error and does not rethrow.
LoginThrowSwallowed(e) ==
  /\ pc' = IF mode = "single" THEN "s_send" ELSE "b_setup"
  /\ error' = error
  /\ lv' = [lv EXCEPT !.thrown = e]

\* An error thrown inside loginToReddit is logged and rethrown by its catch
\* (lines 160-163) into the orchestrator's catch.
LoginThrow(e) ==
  /\ Throw(e)
  /\ lv' = [lv EXCEPT !.thrown = e]

\* loginToReddit entry: build the solver, page.goto the login page, wait for
\* the two input elements; the navigation or one of the waits may fail, by
\* its timeout or otherwise.
LoginGoto ==
  /\ pc = "login"
  /\ calls' = Bump(calls, "login")
  /\ \/ /\ lv' = [NoLocals EXCEPT
                    !.solver = IF Truthy(options.captchaApiKey)
                                 THEN "solver" ELSE "null"]
        /\ pc' = "login_fill"
        /\ error' = error
     \/ \E w \in {"none", "goto", "selector"} :
          /\ Throw(ErrBrowser)
          /\ lv' = [NoLocals EXCEPT
                      !.solver = IF Truthy(options.captchaApiKey)
                                   THEN "solver" ELSE "null",
                      !.thrown = ErrBrowser,
                      !.timedOut = w]
  /\ UNCHANGED <<usersData, sv, mode, options, target, users, browser, page, i, results,
                 delay, waits, attempts, saved, outcome>>

\* The two page.evaluate calls that fill username and password.
LoginFill ==
  /\ pc = "login_fill"
  /\ \/ /\ lv' = Bump(lv, "creds")
        /\ pc' = "login_click"
        /\ error' = error
     \/ LoginThrow(ErrBrowser)
  /\ UNCHANGED <<usersData, sv, mode, options, target, users, browser, page, i, results,
                 delay, calls, waits, attempts, saved, outcome>>

\* What the first submit attempt finds in the first form whose text names
\* the login: a submit control that is enabled, one that is disabled, no
\* control but a submit() that works, or nothing (no such form, or every
\* submit() throws). The control is taken by selector alone (line 106).
FormLooks == {"button", "disabledButton", "submit", "none"}

\* loginButtonClicked of lines 99-119.
LoginButtonClicked(look) == look # "none"

\* Variant: the second attempt is made whatever the first one did.
LoginClickAlwaysSecond ==
  /\ pc = "login_click"
  /\ \/ \E look \in FormLooks :
          /\ page' = [kind |-> "form", look |-> look]
          /\ lv' = [lv EXCEPT !.clicked = LoginButtonClicked(look),
                              !.submit = IF LoginButtonClicked(look)
                                           THEN @ + 1 ELSE @]
          /\ pc' = "login_click2"
          /\ error' = error
     \/ /\ LoginThrow(ErrBrowser)
        /\ page' = page
  /\ UNCHANGED <<usersData, sv, mode, options, target, users, browser, i,
                 results, delay, calls, waits, attempts, saved, outcome>>

\* First submit attempt (lines 97-119): the semantic form match.
LoginClick ==
  /\ pc = "login_click"
  /\ \/ \E look \in FormLooks :
          /\ page' = [kind |-> "form", look |-> look]
          /\ lv' = [lv EXCEPT !.clicked = LoginButtonClicked(look),
                              !.submit = IF LoginButtonClicked(look)
                                           THEN @ + 1 ELSE @]
          /\ pc' = IF LoginButtonClicked(look) THEN "captcha"
                   ELSE "login_click2"
          /\ error' = error
     \/ /\ LoginThrow(ErrBrowser)
        /\ page' = page
  /\ UNCHANGED <<usersData, sv, mode, options, target, users, browser, i,
                 results, delay, calls, waits, attempts, saved, outcome>>

\* What the second attempt meets: a button labelled "log in" that is enabled
\* or disabled, or none, and whether the page has an enabled button at all.
ButtonLooks ==
  { b \in [labelled : {"none", "enabled", "disabled"}, anyEnabled : BOOLEAN] :
      b.labelled = "enabled" => b.anyEnabled }

\* The tier of lines 124-141 that clicks: 2 the labelled enabled button, 3
\* the first enabled button, 0 none.
SecondAttempt(b) ==
  IF b.labelled = "enabled" THEN 2
  ELSE IF b.anyEnabled THEN 3
  ELSE 0

\* Second submit attempt (lines 121-144), then the fixed settle delay.
LoginClick2 ==
  /\ pc = "login_click2"
  /\ \/ \E b \in ButtonLooks :
          /\ page' = [kind |-> "buttons", labelled |-> b.labelled,
                      anyEnabled |-> b.anyEnabled, tier |-> SecondAttempt(b)]
          /\ IF SecondAttempt(b) = 0
               THEN LoginThrow(ErrLoginButton)
               ELSE /\ lv' = [lv EXCEPT !.clicked = TRUE, !.submit = @ + 1]
                    /\ pc' = "captcha"
                    /\ error' = error
     \/ /\ LoginThrow(ErrBrowser)
        /\ page' = page
  /\ UNCHANGED <<usersData, sv, mode, options, target, users, browser, i,
                 results, delay, calls, waits, attempts, saved, outcome>>

(* ----------------------- handleCaptchaIfPresent ------------------------ *)

\* What the detection script can find on the page: the recaptcha iframe, its
\* non-zero size, its display other than none, its visibility other than
\* hidden, a captcha container that is displayed, an active .g-recaptcha.
CaptchaFacts ==
  {"iframe", "sized", "displayed", "notHidden", "containerVisible",
   "challengeActive"}

\* The pages the detection script can see: size and style belong to an
\* iframe that exists.
CaptchaPages ==
  { d \in SUBSET CaptchaFacts :
      "iframe" \notin d => d \cap {"sized", "displayed", "notHidden"} = {} }

\* isVisible of lines 174-177.
FrameVisible(d) ==
  /\ "iframe" \in d
  /\ "sized" \in d
  /\ "displayed" \in d
  /\ "notHidden" \in d

\* Variant: the frame's visibility is not asked for.
CaptchaRequiredAnyFrame(d) ==
  "iframe" \in d /\ ("containerVisible" \in d \/ "challengeActive" \in d)

\* The script of lines 170-186: captchaRequired.
CaptchaRequired(d) ==
  IF "iframe" \notin d THEN FALSE
  ELSE FrameVisible(d) /\ ("containerVisible" \in d \/ "challengeActive" \in d)

\* What the detection saw: the frame, its visibility, and whether a visible
\* container or an active challenge element came with it.
CaptchaSeen(d) ==
  [kind |-> "captcha", iframe |-> "iframe" \in d, visible |-> FrameVisible(d),
   active |-> ("containerVisible" \in d \/ "challengeActive" \in d)]

\* Variant: without a solver a detected challenge is only logged.
CaptchaDetectLenient ==
  /\ pc = "captcha"
  /\ \E d \in CaptchaPages :
       /\ page' = CaptchaSeen(d)
       /\ IF CaptchaRequired(d) /\ lv.solver # "null"
            THEN /\ lv' = [lv EXCEPT !.captchaRequired = TRUE]
                 /\ pc' = "captcha_sitekey"
            ELSE /\ lv' = lv
                 /\ pc' = "verify"
  /\ UNCHANGED <<usersData, sv, mode, options, target, users, browser, error, i, results,
                 delay, calls, waits, attempts, saved, outcome>>

\* Detection and the decision of lines 188-193.
CaptchaDetect ==
  /\ pc = "captcha"
  /\ \/ \E d \in CaptchaPages :
          /\ page' = CaptchaSeen(d)
          /\ IF CaptchaRequired(d)
               THEN IF lv.solver = "null"
                      THEN LoginThrow(ErrCaptchaNoKey)
                      ELSE /\ lv' = [lv EXCEPT !.captchaRequired = TRUE]
                           /\ pc' = "captcha_sitekey"
                           /\ error' = error
               ELSE /\ lv' = lv
                    /\ pc' = "verify"
                    /\ error' = error
     \/ /\ LoginThrow(ErrBrowser)
        /\ page' = page
  /\ UNCHANGED <<usersData, sv, mode, options, target, users, browser, i, results, delay,
                 calls, waits, attempts, saved, outcome>>

\* What the sitekey script returns: null (no iframe or no k= parameter), an
\* empty key, a key.
Sitekeys == {"null", "", "SITEKEY"}

\* Lines 195-204.
CaptchaSitekey ==
  /\ pc = "captcha_sitekey"
  /\ \/ \E k \in Sitekeys :
          IF k \in {"null", ""}
            THEN LoginThrow(ErrSitekey)
            ELSE /\ lv' = [lv EXCEPT !.sitekey = k]
                 /\ pc' = "captcha_solve"
                 /\ error' = error
     \/ LoginThrow(ErrBrowser)
  /\ UNCHANGED <<usersData, sv, mode, options, target, users, browser, page, i, results,
                 delay, calls, waits, attempts, saved, outcome>>

\* Variant: the service's error is logged and the login goes on to the
\* verification, as it does when no challenge is present.
CaptchaSolveLenient ==
  /\ pc = "captcha_solve"
  /\ error' = error
  /\ \/ /\ lv' = [lv EXCEPT !.token = "TOKEN", !.solverCalls = @ + 1]
        /\ pc' = "captcha_inject"
     \/ /\ lv' = [lv EXCEPT !.thrown = ErrSolver, !.solverCalls = @ + 1]
        /\ pc' = "verify"
  /\ UNCHANGED <<usersData, sv, mode, options, target, users, browser, page,
                 i, results, delay, calls, waits, attempts, saved, outcome>>

\* solver.recaptcha(...) of lines 207-211: a token, or the service's error.
CaptchaSolve ==
  /\ pc = "captcha_solve"
  /\ \/ /\ lv' = [lv EXCEPT !.token = "TOKEN", !.solverCalls = @ + 1]
        /\ pc' = "captcha_inject"
        /\ error' = error
     \/ /\ Throw(ErrSolver)
        /\ lv' = [lv EXCEPT !.thrown = ErrSolver, !.solverCalls = @ + 1]
  /\ UNCHANGED <<usersData, sv, mode, options, target, users, browser, page, i, results,
                 delay, calls, waits, attempts, saved, outcome>>

\* The injection script of lines 213-220: the response textarea is filled
\* when it exists; the submit button is clicked, and the click of a missing
\* button throws.
CaptchaInject ==
  /\ pc = "captcha_inject"
  /\ \/ \E textarea \in BOOLEAN, button \in BOOLEAN :
          /\ page' = [kind |-> "inject", textarea |-> textarea,
                      button |-> button,
                      response |-> IF textarea THEN lv.token ELSE "none"]
          /\ IF button
               THEN /\ lv' = [lv EXCEPT
                                !.injected = IF textarea THEN @ + 1 ELSE @,
                                !.captchaSubmit = @ + 1]
                    /\ pc' = "captcha_nav"
                    /\ error' = error
               ELSE /\ lv' = [lv EXCEPT
                                !.injected = IF textarea THEN @ + 1 ELSE @,
                                !.thrown = ErrNullClick]
                    /\ Throw(ErrNullClick)
     \/ /\ LoginThrow(ErrBrowser)
        /\ page' = page
  /\ UNCHANGED <<usersData, sv, mode, options, target, users, browser, i, results, delay,
                 calls, waits, attempts, saved, outcome>>

\* Variant: the timeout of the wait is caught and logged.
CaptchaNavSwallowed ==
  /\ pc = "captcha_nav"
  /\ pc' = "verify"
  /\ error' = error
  /\ lv' \in {lv, [lv EXCEPT !.timedOut = "captchaNav"]}
  /\ UNCHANGED <<usersData, sv, mode, options, target, users, browser, page,
                 i, results, delay, calls, waits, attempts, saved, outcome>>

\* page.waitForNavigation of line 223: the transition, or the wait's error
\* (its timeout, or another failure of the primitive).
CaptchaNav ==
  /\ pc = "captcha_nav"
  /\ \/ /\ pc' = "verify"
        /\ error' = error
        /\ lv' = lv
     \/ \E w \in {"none", "captchaNav"} :
          /\ Throw(ErrBrowser)
          /\ lv' = [lv EXCEPT !.thrown = ErrBrowser, !.timedOut = w]
  /\ UNCHANGED <<usersData, sv, mode, options, target, users, browser, page, i, results,
                 delay, calls, waits, attempts, saved, outcome>>

(* ------------------------- verifyLoginSuccess -------------------------- *)

\* The markers the code looks for in an address; an address is modelled by
\* the set of markers it contains.
UrlMarks == {"/login", "/register", "/error"}

\* Lines 246-249.
UrlIndicatesSuccess(url) ==
  /\ "/login" \notin url
  /\ "/register" \notin url
  /\ "/error" \notin url

\* Elements the verification scripts query.
StrongEls ==
  {"expandUserDrawerButton", "userAvatar", "userAvatarSpan",
   "faceplateUserDrawer", "userMenuTrigger", "karma"}

PositiveEls == StrongEls \cup {"createButton"}

FormEls == {"loginUsernameInput", "loginFormTestid"}

IndicatorEls == PositiveEls \cup FormEls

\* Lines 273-275: the number of indicators that are true (the two form
\* indicators are true when the element is absent).
PositiveIndicators(dom) ==
  Cardinality(dom \cap PositiveEls) + Cardinality(FormEls \ dom)

\* Lines 278-284.
StrongIndicators(dom) == dom \cap StrongEls # {}

\* Lines 287-289.
LikelySuccess(dom) ==
  /\ FormEls \ dom # {}
  /\ (PositiveIndicators(dom) >= 2 \/ StrongIndicators(dom))

\* The script of lines 254-292.
DomLoginSuccess(dom) ==
  StrongIndicators(dom) \/ LikelySuccess(dom) \/ PositiveIndicators(dom) >= 3

\* Variant: both signals are required.
OverallSuccessBoth(urlOk, domOk) == urlOk /\ domOk

\* Line 297.
OverallSuccess(urlOk, domOk) == urlOk \/ domOk

\* What a verification step saw: whether the address is free of the three
\* markers, whether it is the login surface, whether each login-form element
\* is there, whether any logged-in indicator is there.
Seen(kind, url, dom) ==
  [kind |-> kind, urlOk |-> UrlIndicatesSuccess(url),
   loginSurface |-> "/login" \in url,
   loginInput |-> "loginUsernameInput" \in dom,
   loginForm |-> "loginFormTestid" \in dom,
   loggedIn |-> dom \cap (PositiveEls \cup {"otherUserTestid"}) # {}]

\* The first check on every page: what was seen, and the two signals the
\* code computes from it (lines 242-292).
FirstChecks ==
  { [seen |-> Seen("verify", url, dom),
     urlOk |-> UrlIndicatesSuccess(url),
     domOk |-> DomLoginSuccess(dom)] :
      url \in SUBSET UrlMarks, dom \in SUBSET IndicatorEls }

\* verifyLoginSuccess up to the decision of line 299: the navigation wait of
\* lines 235-240, whose timeout is caught and logged, then the two checks; a
\* throwing page.evaluate lands in the catch of lines 329-332, which returns
\* false.
VerifyCheck ==
  /\ pc = "verify"
  /\ error' = error
  /\ \E w \in {"none", "verifyNav"} :
       \/ \E o \in FirstChecks :
            LET ok == OverallSuccess(o.urlOk, o.domOk)
            IN /\ page' = o.seen
               /\ lv' = [lv EXCEPT !.urlIndicatesSuccess = o.urlOk,
                                   !.domSuccess = o.domOk,
                                   !.first = o.seen,
                                   !.loginSuccess = ok,
                                   !.timedOut = w,
                                   !.verifyCalls = @ + 1]
               /\ pc' = IF ok THEN "login_verified" ELSE "verify_retry"
       \/ /\ page' = page
          /\ lv' = [lv EXCEPT !.loginSuccess = FALSE, !.evalThrew = TRUE,
                              !.timedOut = w,
                              !.verifyCalls = @ + 1]
          /\ pc' = "login_verified"
  /\ UNCHANGED <<usersData, sv, mode, options, target, users, browser, i, results, delay,
                 calls, waits, attempts, saved, outcome>>

\* Elements the retry script queries: four of the strong indicators, the
\* login input, the create button, and any element whose data-testid
\* contains "user" (the user-menu trigger is one).
RetryEls ==
  {"expandUserDrawerButton", "userAvatar", "userAvatarSpan",
   "faceplateUserDrawer", "userMenuTrigger", "otherUserTestid",
   "createButton", "loginUsernameInput"}

\* The retry reads the address for one marker only.
RetryMarks == {"/login"}

\* quickCheck of lines 306-314.
QuickCheck(url, dom) ==
  \/ "expandUserDrawerButton" \in dom
  \/ "userAvatar" \in dom
  \/ "userAvatarSpan" \in dom
  \/ "faceplateUserDrawer" \in dom
  \/ /\ "loginUsernameInput" \notin dom
     /\ "/login" \notin url
     /\ \/ "userMenuTrigger" \in dom
        \/ "otherUserTestid" \in dom
        \/ "createButton" \in dom

\* The retry on every page: what was seen, and retryVerification.
RetryChecks ==
  { [seen |-> Seen("retry", url, dom), quickCheck |-> QuickCheck(url, dom)] :
      url \in SUBSET RetryMarks, dom \in SUBSET RetryEls }

\* Variant: a negative retry fails the verification.
RetryResultStrict(retryVerification) == retryVerification

\* Lines 319-325: both branches return true.
RetryResult(retryVerification) ==
  IF ~retryVerification THEN TRUE ELSE TRUE

\* The retry of lines 300-326.
VerifyRetry ==
  /\ pc = "verify_retry"
  /\ error' = error
  /\ pc' = "login_verified"
  /\ \/ \E o \in RetryChecks :
          /\ page' = o.seen
          /\ lv' = [lv EXCEPT !.retries = @ + 1,
                              !.loginSuccess = RetryResult(o.quickCheck)]
     \/ /\ page' = page
        /\ lv' = [lv EXCEPT !.retries = @ + 1, !.loginSuccess = FALSE,
                            !.evalThrew = TRUE]
  /\ UNCHANGED <<usersData, sv, mode, options, target, users, browser, i, results, delay,
                 calls, waits, attempts, saved, outcome>>

\* Where the orchestrator continues after loginToReddit returned.
AfterLogin == IF mode = "single" THEN "s_send" ELSE "b_setup"

\* loginToReddit lines 153-159: throw on a false verification, else return.
LoginReturn ==
  /\ pc = "login_verified"
  /\ IF ~lv.loginSuccess
       THEN /\ LoginThrow(ErrVerify)
            /\ calls' = calls
       ELSE /\ lv' = NoLocals
            /\ calls' = Bump(calls, "loginOk")
            /\ pc' = AfterLogin
            /\ error' = error
  /\ UNCHANGED <<usersData, sv, mode, options, target, users, browser, page, i, results,
                 delay, waits, attempts, saved, outcome>>

(* -------------------------- sendMessageToUser -------------------------- *)

\* What one delivery attempt meets: whether the profile navigation works,
\* the profile's classification, what extractChatUrl returns (an address,
\* null, or the timeout of its element wait), whether the chat navigation
\* works, whether the address reached is on the chat domain, and the
\* delivery status read at the end.
SendFixtures ==
  [profileGoto : BOOLEAN,
   userStatus : {"exists", "not_found", "suspended"},
   chatUrl : {"found", "null", "timeout"},
   chatGoto : BOOLEAN,
   onChatDomain : BOOLEAN,
   deliveryStatus : {"failed", "sent", "unknown"}]

\* sendMessageToUser (with sendMessageInChatInterface): "ok" when it returns
\* true, else the error it throws.
SendResult(fx) ==
  IF ~fx.profileGoto THEN ErrBrowser
  ELSE IF fx.userStatus = "not_found" THEN ErrNotFound
  ELSE IF fx.userStatus # "exists" THEN ErrSuspended
  ELSE IF fx.chatUrl = "timeout" THEN ErrBrowser
  ELSE IF fx.chatUrl = "null" THEN ErrNoChat
  ELSE IF ~fx.chatGoto THEN ErrBrowser
  ELSE IF ~fx.onChatDomain THEN ErrNotChatPage
  ELSE IF fx.deliveryStatus = "failed" THEN ErrDelivery
  ELSE "ok"

\* The results of sendMessageToUser over everything an attempt can meet.
SendOutcomes == { SendResult(fx) : fx \in SendFixtures }

TargetPage == [kind |-> "target"]

(* ----------------------------- saveResults ----------------------------- *)

\* The record saveResults writes: the file-name prefix and the data.
Saved(prefix, keys, success, failed) ==
  [prefix |-> prefix, keys |-> keys, success |-> success, failed |-> failed]

(* ------------------------ processOptimizedBatch ------------------------ *)

\* Line 50: options.delay || 30000.
EffectiveDelay(d) ==
  IF d = <<>> THEN DefaultDelay
  ELSE IF d[1] = 0 THEN DefaultDelay ELSE d[1]

\* Lines 43-52: the results record and the delay.
BatchSetup ==
  /\ pc = "b_setup"
  /\ results' = [success |-> <<>>, failed |-> <<>>]
  /\ delay' = EffectiveDelay(options.delay)
  /\ i' = 0
  /\ pc' = "loop"
  /\ UNCHANGED <<usersData, sv, mode, options, target, users, browser, lv, page, error,
                 calls, waits, attempts, saved, outcome>>

\* Variant: the catch logs the failure and records nothing.
RecordOutcomeDropFailure(res, user, r) ==
  IF r = "ok" THEN [res EXCEPT !.success = Append(@, user)] ELSE res

\* Lines 59-72: the outcome of one attempt goes to one of the two lists.
RecordOutcome(res, user, r) ==
  IF r = "ok"
    THEN [res EXCEPT !.success = Append(@, user)]
    ELSE [res EXCEPT !.failed = Append(@, [user |-> user, error |-> r])]

\* Line 55: the loop condition.
LoopTest(k, n) == k < n

\* Variant: no try/catch around the attempt, so a failure leaves the loop.
BatchSendAbort ==
  /\ pc = "loop"
  /\ i < Len(users)
  /\ \E r \in SendOutcomes :
       /\ attempts' = Append(attempts, [user |-> users[i + 1], result |-> r])
       /\ IF r = "ok"
            THEN /\ results' = [results EXCEPT
                                  !.success = Append(@, users[i + 1])]
                 /\ pc' = "pace"
                 /\ error' = error
            ELSE /\ results' = results
                 /\ pc' = "b_catch"
                 /\ error' = r
  /\ calls' = [calls EXCEPT !.send = @ + 1]
  /\ page' = [kind |-> "target"]
  /\ UNCHANGED <<usersData, sv, mode, options, target, users, browser, lv, i, delay, waits,
                 saved, outcome>>

\* One iteration's try/catch (lines 56-72): the attempt and its record.
BatchSend ==
  /\ pc = "loop"
  /\ LoopTest(i, Len(users))
  /\ \E r \in SendOutcomes :
       /\ attempts' = Append(attempts, [user |-> users[i + 1], result |-> r])
       /\ results' = RecordOutcome(results, users[i + 1], r)
  /\ calls' = Bump(calls, "send")
  /\ page' = TargetPage
  /\ pc' = "pace"
  /\ UNCHANGED <<usersData, sv, mode, options, target, users, browser, lv, error, i, delay,
                 waits, saved, outcome>>

\* Variant: the pacing condition compares with the length itself.
PaceAlways(k, n) == k < n

\* Line 75: the pacing condition.
PaceNeeded(k, n) == k < n - 1

\* Variant: the session is not reused, each further target logs in again.
BatchPaceRelogin ==
  /\ pc = "pace"
  /\ waits' = IF i < Len(users) - 1 THEN Append(waits, delay) ELSE waits
  /\ i' = i + 1
  /\ pc' = IF i < Len(users) - 1 THEN "login" ELSE "loop"
  /\ UNCHANGED <<usersData, sv, mode, options, target, users, browser, lv, page, error,
                 results, delay, calls, attempts, saved, outcome>>

\* Lines 74-78 and the loop's i++.
BatchPace ==
  /\ pc = "pace"
  /\ waits' = IF PaceNeeded(i, Len(users)) THEN Append(waits, delay) ELSE waits
  /\ i' = i + 1
  /\ pc' = "loop"
  /\ UNCHANGED <<usersData, sv, mode, options, target, users, browser, lv, page, error,
                 results, delay, calls, attempts, saved, outcome>>

\* Lines 81-91: after the loop, saveResults(results, 'batch') and return.
BatchSave ==
  /\ pc = "loop"
  /\ ~LoopTest(i, Len(users))
  /\ calls' = Bump(calls, "save")
  /\ \/ /\ saved' = Append(saved, Saved("batch", {"success", "failed"},
                                        results.success, results.failed))
        /\ pc' = "finally"
        /\ error' = error
     \/ /\ Throw(ErrWrite)
        /\ saved' = saved
  /\ UNCHANGED <<usersData, sv, mode, options, target, users, browser, lv, page, i, results,
                 delay, waits, attempts, outcome>>

\* Lines 92-94: log and rethrow.
BatchCatch ==
  /\ pc = "b_catch"
  /\ pc' = "finally"
  /\ UNCHANGED <<usersData, sv, mode, options, target, users, browser, lv, page, error, i,
                 results, delay, calls, waits, attempts, saved, outcome>>

(* --------------------------- redditMessenger --------------------------- *)

\* index.js line 42.
SingleSend ==
  /\ pc = "s_send"
  /\ \E r \in SendOutcomes :
       /\ attempts' = Append(attempts, [user |-> target, result |-> r])
       /\ IF r = "ok"
            THEN /\ pc' = "s_save"
                 /\ error' = error
            ELSE Throw(r)
  /\ calls' = Bump(calls, "send")
  /\ page' = TargetPage
  /\ UNCHANGED <<usersData, sv, mode, options, target, users, browser, lv, i, results,
                 delay, waits, saved, outcome>>

\* index.js lines 44-57: the success record.
SingleSave ==
  /\ pc = "s_save"
  /\ calls' = Bump(calls, "save")
  /\ \/ /\ saved' = Append(saved,
                           Saved("single-message",
                                 {"success", "message", "timestamp",
                                  "configuration"},
                                 <<target>>, <<>>))
        /\ pc' = "finally"
        /\ error' = error
     \/ /\ Throw(ErrWrite)
        /\ saved' = saved
  /\ UNCHANGED <<usersData, sv, mode, options, target, users, browser, lv, page, i, results,
                 delay, waits, attempts, outcome>>

\* index.js lines 58-74: the failure record, then the rethrow; a failing
\* saveResults replaces the error.
SingleCatch ==
  /\ pc = "s_catch"
  /\ calls' = Bump(calls, "save")
  /\ pc' = "finally"
  /\ \/ /\ saved' = Append(saved,
                           Saved("failed-message", {"failed", "configuration"},
                                 <<>>, <<[user |-> target, error |-> error]>>))
        /\ error' = error
     \/ /\ error' = ErrWrite
        /\ saved' = saved
  /\ UNCHANGED <<usersData, sv, mode, options, target, users, browser, lv, page, i, results,
                 delay, waits, attempts, outcome>>

(* ------------------------------ finally -------------------------------- *)

\* The guard of the finally block of both orchestrators: if (browser).
CloseNeeded(b) == b # "null"

\* The finally block: browser.close() when the guard holds; a close that
\* rejects replaces whatever the run was ending with.
Finally ==
  /\ pc = "finally"
  /\ pc' = "done"
  /\ IF CloseNeeded(browser)
       THEN /\ calls' = Bump(calls, "close")
            /\ \/ /\ error' = error
                  /\ outcome' = IF error = "none" THEN "returned" ELSE "thrown"
               \/ /\ error' = ErrClose
                  /\ outcome' = "thrown"
       ELSE /\ calls' = calls
            /\ error' = error
            /\ outcome' = IF error = "none" THEN "returned" ELSE "thrown"
  /\ UNCHANGED <<usersData, sv, mode, options, target, users, browser, lv, page, i,
                 results, delay, waits, attempts, saved>>

(* ------------------ sendMessageToUser, step by step -------------------- *)

\* Most anchors on a profile page, and most children of a shadow root, the
\* fixtures are made of; the nesting depth of the composer's shadow tree.
MaxAnchors == 2
MaxShadowKids == 2
MaxDepth == 2

\* Variant: a suspended account is not looked for.
UserStatusNotFoundOnly(notFoundText, suspendedText) ==
  IF notFoundText THEN "not_found" ELSE "exists"

\* The script of lines 399-407.
UserStatus(notFoundText, suspendedText) ==
  IF notFoundText THEN "not_found"
  ELSE IF suspendedText THEN "suspended"
  ELSE "exists"

\* An anchor of the profile page, by what the selectors of extractChatUrl
\* ask: where it sits ("profile": in a reddit-chat-anchor inside the
\* profile's chat tracker, "target": in one inside a target_user tracker,
\* "anchor": in a reddit-chat-anchor, "plain": elsewhere), its aria-label,
\* its href ("user": contains chat.reddit.com/user/, "chat": contains
\* chat.reddit.com only, "other": neither, or empty), target=_blank or the
\* class button-secondary (of an anchor with a "user" href, the only ones
\* the two selectors that ask for them can match), and whether its text
\* mentions chat (of an anchor with a "chat" href: the scan is only reached
\* when no anchor has a "user" href).
Anchors ==
  { a \in [place : {"plain", "anchor", "profile", "target"},
           aria : BOOLEAN,
           href : {"user", "chat", "other"},
           mark : {"none", "blank", "secondary"}, text : BOOLEAN] :
      /\ a.href # "user" => a.mark = "none"
      /\ a.href # "chat" => ~a.text }

\* The eight selectors of lines 346-352 and 362-366, in the order tried.
Selects(n, a) ==
  CASE n = 1 -> a.place = "profile"
    [] n = 2 -> a.place = "target"
    [] n = 3 -> a.place # "plain" /\ a.aria
    [] n = 4 -> a.href = "user" /\ a.mark = "blank"
    [] n = 5 -> a.mark = "secondary" /\ a.href = "user"
    [] n = 6 -> a.aria
    [] n = 7 -> a.href = "user"
    [] n = 8 -> a.place # "plain"

\* element.href && element.href.includes('chat.reddit.com')
HasChatHref(a) == a.href \in {"user", "chat"}

\* The first of the positions S in document order, 0 if there is none.
FirstOf(S) ==
  IF S = {} THEN 0 ELSE CHOOSE k \in S : \A j \in S : k <= j

\* document.querySelector(selector n): a position of `dom`, 0 for null.
QuerySelector(n, dom) ==
  FirstOf({ k \in 1..Len(dom) : Selects(n, dom[k]) })

\* What strategy n gives: the position of the anchor whose href it returns,
\* 0 if it returns nothing. Strategies 1-8 look at the first match of their
\* selector only; strategy 9 is the scan of lines 376-381.
StrategyHit(n, dom) ==
  IF n = 9
    THEN FirstOf({ k \in 1..Len(dom) : HasChatHref(dom[k]) /\ dom[k].text })
    ELSE LET k == QuerySelector(n, dom)
         IN IF k # 0 /\ HasChatHref(dom[k]) THEN k ELSE 0

\* Variant: the fallback selectors and the scan are tried first.
StrategyOrderFallbackFirst == <<6, 7, 8, 9, 1, 2, 3, 4, 5>>

\* The order of the strategies: five specific selectors, three fallback
\* selectors, the scan.
StrategyOrder == <<1, 2, 3, 4, 5, 6, 7, 8, 9>>

NoChatUrl == [by |-> 0, el |-> 0, href |-> "null"]

\* The loops of lines 354-381 from the j-th strategy of `order` on.
RECURSIVE TryStrategies(_, _, _)
TryStrategies(order, j, dom) ==
  IF j > Len(order) THEN NoChatUrl
  ELSE LET k == StrategyHit(order[j], dom)
       IN IF k # 0
            THEN [by |-> order[j], el |-> k, href |-> dom[k].href]
            ELSE TryStrategies(order, j + 1, dom)

\* The script of extractChatUrl: the strategy that returned, the anchor it
\* returned and that anchor's href; NoChatUrl for null.
ExtractChatUrl(dom) == TryStrategies(StrategyOrder, 1, dom)

\* What the script saw: how many anchors, and which strategies have a hit.
LinksSeen(dom) ==
  [kind |-> "links", anchors |-> Len(dom),
   hits |-> { n \in 1..9 : StrategyHit(n, dom) # 0 }]

\* The outcomes of extractChatUrl's script over all profile pages: up to
\* MaxAnchors anchors in document order.
ExtractOutcomes ==
  { [seen |-> LinksSeen(dom), chatUrl |-> ExtractChatUrl(dom)] :
      dom \in SeqsUpTo(Anchors, MaxAnchors) }

\* An element of the chat page, by what findTextareaInShadowDom asks: its
\* tag ("textarea", "div", "box": an element of class message-box, "auto":
\* rs-textarea-auto-size, "custom": another tag with a hyphen), its light
\* children, whether it has a shadow root and that root's children. A
\* shadow root without children is as good as none, and so is a message box
\* without children as good as a div.
Node(tag, kids, open, shadow) ==
  [tag |-> tag, kids |-> kids, open |-> open, shadow |-> shadow]

Leaf(tag) == Node(tag, <<>>, FALSE, <<>>)

NoNode == Leaf("null")

Leaves == { Leaf(t) : t \in {"textarea", "div", "auto", "custom"} }

\* The elements of nesting depth d at most.
RECURSIVE Level(_)
Level(d) ==
  IF d = 0 THEN Leaves
  ELSE LET P == Level(d - 1)
       IN P \cup { Node(t, <<>>, TRUE, <<c>>) : t \in {"auto", "custom"}, c \in P }
            \cup { Node("box", <<c>>, FALSE, <<>>) : c \in P }

\* The rs-message-composer elements: with a textarea in the light DOM, or
\* with a shadow root of up to MaxShadowKids children.
Composers ==
  { Node("custom", <<Leaf("textarea")>>, FALSE, <<>>) }
    \cup { Node("custom", <<>>, TRUE, sh) :
             sh \in SeqsUpTo(Level(MaxDepth - 1), MaxShadowKids) }

\* tagName.includes('-')
IsCustom(n) == n.tag \in {"auto", "custom"}

\* querySelector over a forest, light DOM only, in document order: the first
\* element with the tag, NoNode for null.
RECURSIVE FirstTagged(_, _)
FirstTagged(forest, tag) ==
  IF forest = <<>> THEN NoNode
  ELSE IF Head(forest).tag = tag THEN Head(forest)
  ELSE LET below == FirstTagged(Head(forest).kids, tag)
       IN IF below # NoNode THEN below ELSE FirstTagged(Tail(forest), tag)

\* findTextareaInShadowDom (lines 461-504): TRUE when it returns a textarea,
\* FALSE when it returns null.
RECURSIVE FindTextareaInShadowDom(_)
FindTextareaInShadowDom(element) ==
  IF element.tag = "textarea" THEN TRUE
  ELSE IF FirstTagged(element.kids, "textarea") # NoNode THEN TRUE
  ELSE IF ~element.open THEN FALSE
  ELSE IF FirstTagged(element.shadow, "textarea") # NoNode THEN TRUE
  ELSE LET nested == FirstTagged(element.shadow, "auto")
           messageBox == FirstTagged(element.shadow, "box")
       IN IF nested # NoNode THEN FindTextareaInShadowDom(nested)
          ELSE \/ /\ messageBox # NoNode
                  /\ \/ FirstTagged(messageBox.kids, "textarea") # NoNode
                     \/ \E k \in 1..Len(messageBox.kids) :
                          /\ IsCustom(messageBox.kids[k])
                          /\ FindTextareaInShadowDom(messageBox.kids[k])
               \/ \E k \in 1..Len(element.shadow) :
                    /\ IsCustom(element.shadow[k])
                    /\ FindTextareaInShadowDom(element.shadow[k])

\* Variant: the delivery check looks for the success indicator first.
DeliveryStatusSentFirst(failPhrase, sentMark) ==
  IF sentMark THEN "sent" ELSE IF failPhrase THEN "failed" ELSE "unknown"

\* The script of lines 656-668.
DeliveryStatus(failPhrase, sentMark) ==
  IF failPhrase THEN "failed" ELSE IF sentMark THEN "sent" ELSE "unknown"

\* Whether an editable field lies where findTextareaInShadowDom is meant to
\* look: the element itself, its light DOM, its shadow tree, and, through
\* their own shadow roots, the nested auto-size component, the custom
\* children of the message box and the custom children of the shadow root.
RECURSIVE FieldWithin(_)
FieldWithin(element) ==
  \/ element.tag = "textarea"
  \/ FirstTagged(element.kids, "textarea") # NoNode
  \/ /\ element.open
     /\ LET nested == FirstTagged(element.shadow, "auto")
            messageBox == FirstTagged(element.shadow, "box")
        IN \/ FirstTagged(element.shadow, "textarea") # NoNode
           \/ nested # NoNode /\ FieldWithin(nested)
           \/ /\ messageBox # NoNode
              /\ \E k \in 1..Len(messageBox.kids) :
                   IsCustom(messageBox.kids[k]) /\ FieldWithin(messageBox.kids[k])
           \/ \E k \in 1..Len(element.shadow) :
                IsCustom(element.shadow[k]) /\ FieldWithin(element.shadow[k])

\* What document.querySelector('rs-message-composer') and the search from it
\* give, over all composers and for a page without one.
ComposerFacts ==
  { [composer |-> TRUE, within |-> FieldWithin(c),
     found |-> FindTextareaInShadowDom(c)] : c \in Composers }
    \cup { [composer |-> FALSE, within |-> FALSE, found |-> FALSE] }

\* What the compose script of lines 459-561 meets: the composer, a textarea
\* named or labelled "message", a textarea inside a .message-box, an
\* rs-textarea-auto-size from which the search finds a field, and whether
\* typeInTextarea gets through.
ComposeFixtures ==
  [tree : ComposerFacts, direct : BOOLEAN, boxArea : BOOLEAN,
   autoFound : BOOLEAN, typeOk : BOOLEAN]

\* Variant: the direct selectors are tried before the composer.
ComposeTierDirectFirst(fx) ==
  IF fx.direct THEN 2
  ELSE IF fx.tree.composer /\ fx.tree.found THEN 1
  ELSE IF fx.boxArea THEN 3
  ELSE IF fx.autoFound THEN 4
  ELSE 0

\* The tier of lines 523-556 that reaches a textarea, 0 if none does.
ComposeTier(fx) ==
  IF fx.tree.composer /\ fx.tree.found THEN 1
  ELSE IF fx.direct THEN 2
  ELSE IF fx.boxArea THEN 3
  ELSE IF fx.autoFound THEN 4
  ELSE 0

\* The script's return value.
MessageSent(fx) == ComposeTier(fx) # 0 /\ fx.typeOk

ComposeSeen(fx) ==
  [kind |-> "compose", composer |-> fx.tree.composer,
   within |-> fx.tree.within, found |-> fx.tree.found,
   direct |-> fx.direct, boxArea |-> fx.boxArea, autoFound |-> fx.autoFound,
   tier |-> ComposeTier(fx), typeOk |-> fx.typeOk]

ComposeOutcomes ==
  { [seen |-> ComposeSeen(fx), sent |-> MessageSent(fx)] :
      fx \in ComposeFixtures }

\* What the send-button script of lines 593-644 meets: for the exact
\* selector, for the partial selectors and for the icon search, the button
\* found ("enabled" or "disabled") or "none". A button the exact selector
\* matches is matched by the first partial selector too.
ButtonFixtures ==
  { b \in [exact : {"none", "enabled", "disabled"},
           partial : {"none", "enabled", "disabled"},
           icon : {"none", "enabled", "disabled"}] :
      b.exact # "none" => b.partial # "none" }

\* Variant: a disabled button is passed over.
SendButtonTierEnabledOnly(b) ==
  IF b.exact = "enabled" THEN 1
  ELSE IF b.partial = "enabled" THEN 2
  ELSE IF b.icon = "enabled" THEN 3
  ELSE 0

\* The tier whose button goes to enableAndClick: 1 exact, 2 partial, 3 icon,
\* 0 when the script returns false at line 643.
SendButtonTier(b) ==
  IF b.exact # "none" THEN 1
  ELSE IF b.partial # "none" THEN 2
  ELSE IF b.icon # "none" THEN 3
  ELSE 0

\* The button of a tier.
ButtonOf(b, n) ==
  CASE n = 1 -> b.exact
    [] n = 2 -> b.partial
    [] n = 3 -> b.icon
    [] OTHER -> "none"

\* The script's return value: enableAndClick (lines 594-612) removes the
\* disabled state of the button it is given, clicks it and returns true.
SendButtonClicked(b) == SendButtonTier(b) # 0

\* What the script saw and which button it clicked.
ButtonSeen(b) ==
  [kind |-> "button", exact |-> b.exact, partial |-> b.partial,
   icon |-> b.icon, tier |-> SendButtonTier(b),
   clicked |-> ButtonOf(b, SendButtonTier(b))]

\* The part of the run a step of the delivery leaves alone.
SendFrame ==
  UNCHANGED <<usersData, mode, options, target, users, browser, lv, i,
              results, delay, waits, saved, outcome>>

\* The step goes on to position `next`.
SendOn(next) ==
  /\ pc' = next
  /\ error' = error
  /\ attempts' = attempts

\* sendMessageToUser throws e: its catch (lines 441-444) logs and rethrows.
SendThrow(e) ==
  /\ Throw(e)
  /\ attempts' = Append(attempts, [user |-> target, result |-> e])

\* Lines 391-395: page.goto the profile.
SendGoto ==
  /\ pc = "s_send"
  /\ calls' = Bump(calls, "send")
  /\ page' = page
  /\ \/ /\ sv' = NoSend
        /\ SendOn("m_status")
     \/ \E w \in {"none", "profile"} :
          /\ sv' = [NoSend EXCEPT !.result = ErrBrowser, !.timedOut = w]
          /\ SendThrow(ErrBrowser)
  /\ SendFrame

\* Lines 397-411: the profile's classification.
SendStatus ==
  /\ pc = "m_status"
  /\ calls' = calls
  /\ \/ \E notFoundText \in BOOLEAN, suspendedText \in BOOLEAN :
          LET userStatus == UserStatus(notFoundText, suspendedText)
              e == IF userStatus = "not_found" THEN ErrNotFound
                   ELSE ErrSuspended
          IN /\ page' = [kind |-> "profile", notFoundText |-> notFoundText,
                         suspendedText |-> suspendedText]
             /\ IF userStatus # "exists"
                  THEN /\ sv' = [sv EXCEPT !.userStatus = userStatus,
                                           !.result = e]
                       /\ SendThrow(e)
                  ELSE /\ sv' = [sv EXCEPT !.userStatus = userStatus]
                       /\ SendOn("m_links")
     \/ /\ page' = page
        /\ sv' = [sv EXCEPT !.result = ErrBrowser]
        /\ SendThrow(ErrBrowser)
  /\ SendFrame

\* extractChatUrl line 339: the wait for a button or an anchor.
ExtractWait ==
  /\ pc = "m_links"
  /\ calls' = calls
  /\ page' = page
  /\ \/ /\ sv' = [sv EXCEPT !.extractCalls = @ + 1]
        /\ SendOn("m_extract")
     \/ \E w \in {"none", "links"} :
          /\ sv' = [sv EXCEPT !.extractCalls = @ + 1, !.result = ErrBrowser,
                              !.timedOut = w]
          /\ SendThrow(ErrBrowser)
  /\ SendFrame

\* extractChatUrl lines 341-383 and the test of lines 415-418.
ExtractEval ==
  /\ pc = "m_extract"
  /\ calls' = calls
  /\ \/ \E o \in ExtractOutcomes :
          /\ page' = o.seen
          /\ IF o.chatUrl.by = 0
               THEN /\ sv' = [sv EXCEPT !.chatUrl = o.chatUrl,
                                        !.result = ErrNoChat]
                    /\ SendThrow(ErrNoChat)
               ELSE /\ sv' = [sv EXCEPT !.chatUrl = o.chatUrl]
                    /\ SendOn("m_chat")
     \/ /\ page' = page
        /\ sv' = [sv EXCEPT !.result = ErrBrowser]
        /\ SendThrow(ErrBrowser)
  /\ SendFrame

\* Line 424: page.goto(chatUrl).
ChatGoto ==
  /\ pc = "m_chat"
  /\ calls' = calls
  /\ page' = page
  /\ \/ /\ sv' = [sv EXCEPT !.chatNav = @ + 1]
        /\ SendOn("m_chat_url")
     \/ \E w \in {"none", "chat"} :
          /\ sv' = [sv EXCEPT !.chatNav = @ + 1, !.result = ErrBrowser,
                              !.timedOut = w]
          /\ SendThrow(ErrBrowser)
  /\ SendFrame

\* The address the browser is at after the navigation: on the chat domain
\* ("chat"), elsewhere with the chat domain's name somewhere in it, as in a
\* login redirect that carries the destination ("mentions"), or elsewhere
\* without it ("other").
ChatAddresses == {"chat", "mentions", "other"}

\* chatPageUrl.includes('chat.reddit.com')
UrlIncludesChat(a) == a \in {"chat", "mentions"}

\* Lines 427-434: the settle delay and the test of the address reached.
ChatUrlCheck ==
  /\ pc = "m_chat_url"
  /\ calls' = calls
  /\ \E a \in ChatAddresses :
       /\ page' = [kind |-> "chat", address |-> a,
                   onChatDomain |-> (a = "chat")]
       /\ IF UrlIncludesChat(a)
            THEN /\ sv' = sv
                 /\ SendOn("c_wait")
            ELSE /\ sv' = [sv EXCEPT !.result = ErrNotChatPage]
                 /\ SendThrow(ErrNotChatPage)
  /\ SendFrame

\* sendMessageInChatInterface lines 451-456: the wait for the composer, whose
\* failure is caught and logged.
ComposerWait ==
  /\ pc = "c_wait"
  /\ calls' = calls
  /\ page' = page
  /\ sv' \in {sv, [sv EXCEPT !.timedOut = "composer"]}
  /\ SendOn("c_compose")
  /\ SendFrame

\* The compose script of lines 458-561.
ComposeEval ==
  /\ pc = "c_compose"
  /\ calls' = calls
  /\ \/ \E o \in ComposeOutcomes :
          /\ page' = o.seen
          /\ sv' = [sv EXCEPT !.composeEvals = @ + 1, !.messageSent = o.sent]
          /\ SendOn(IF o.sent THEN "c_button" ELSE "c_click")
     \/ /\ page' = page
        /\ sv' = [sv EXCEPT !.composeEvals = @ + 1, !.result = ErrBrowser]
        /\ SendThrow(ErrBrowser)
  /\ SendFrame

\* Lines 563-575: click the composer and type through the keyboard; an error
\* leads to the last resort.
ComposerClick ==
  /\ pc = "c_click"
  /\ calls' = calls
  /\ page' = page
  /\ \/ /\ sv' = [sv EXCEPT !.typed = @ + 1]
        /\ SendOn("c_button")
     \/ /\ sv' = sv
        /\ SendOn("c_last")
  /\ SendFrame

\* Lines 576-585: click near the bottom of the page and type.
LastResort ==
  /\ pc = "c_last"
  /\ calls' = calls
  /\ page' = page
  /\ \/ /\ sv' = [sv EXCEPT !.typed = @ + 1]
        /\ SendOn("c_button")
     \/ /\ sv' = [sv EXCEPT !.result = ErrBrowser]
        /\ SendThrow(ErrBrowser)
  /\ SendFrame

\* The send-button script of lines 588-644.
SendButton ==
  /\ pc = "c_button"
  /\ calls' = calls
  /\ \/ \E b \in ButtonFixtures :
          /\ page' = ButtonSeen(b)
          /\ sv' = [sv EXCEPT
                      !.sendButtonClicked = SendButtonClicked(b),
                      !.clicks = IF SendButtonClicked(b) THEN @ + 1 ELSE @]
          /\ SendOn(IF SendButtonClicked(b) THEN "c_delivery" ELSE "c_enter")
     \/ /\ page' = page
        /\ sv' = [sv EXCEPT !.result = ErrBrowser]
        /\ SendThrow(ErrBrowser)
  /\ SendFrame

\* Lines 646-649: the Enter key.
PressEnter ==
  /\ pc = "c_enter"
  /\ calls' = calls
  /\ page' = page
  /\ \/ /\ sv' = [sv EXCEPT !.enters = @ + 1]
        /\ SendOn("c_delivery")
     \/ /\ sv' = [sv EXCEPT !.result = ErrBrowser]
        /\ SendThrow(ErrBrowser)
  /\ SendFrame

\* Lines 651-672 and the return of sendMessageToUser (lines 436-440).
DeliveryCheck ==
  /\ pc = "c_delivery"
  /\ calls' = calls
  /\ \/ \E failPhrase \in BOOLEAN, sentMark \in BOOLEAN :
          LET deliveryStatus == DeliveryStatus(failPhrase, sentMark)
          IN /\ page' = [kind |-> "delivery", failPhrase |-> failPhrase,
                         sentMark |-> sentMark]
             /\ IF deliveryStatus = "failed"
                  THEN /\ sv' = [sv EXCEPT !.deliveryStatus = deliveryStatus,
                                           !.result = ErrDelivery]
                       /\ SendThrow(ErrDelivery)
                  ELSE /\ sv' = [sv EXCEPT !.deliveryStatus = deliveryStatus,
                                           !.result = "ok"]
                       /\ pc' = "s_save"
                       /\ error' = error
                       /\ attempts' =
                            Append(attempts, [user |-> target, result |-> "ok"])
     \/ /\ page' = page
        /\ sv' = [sv EXCEPT !.result = ErrBrowser]
        /\ SendThrow(ErrBrowser)
  /\ SendFrame

(* --------------------------- specification ----------------------------- *)

Next ==
  \/ LoadUsers
  \/ InitLaunch
  \/ InitPage
  \/ LoginGoto
  \/ LoginFill
  \/ LoginClick
  \/ LoginClick2
  \/ CaptchaDetect
  \/ CaptchaSitekey
  \/ CaptchaSolve
  \/ CaptchaInject
  \/ CaptchaNav
  \/ VerifyCheck
  \/ VerifyRetry
  \/ LoginReturn
  \/ BatchSetup
  \/ BatchSend
  \/ BatchPace
  \/ BatchSave
  \/ BatchCatch
  \/ SingleSend
  \/ SingleSave
  \/ SingleCatch
  \/ Finally

Spec == Init /\ [][Next]_vars

\* The steps that settle by themselves: every browser wait has a timeout and
\* the other steps are local. The call of the solving service (lines
\* 207-211) is awaited without a timeout, so nothing makes it answer.
SettlingStep == Next /\ pc # "captcha_solve"

\* The runs in which every step that settles by itself is eventually taken.
FairSpec == Spec /\ WF_vars(SettlingStep)

(* ------------- the single run, delivery step by step ------------------- *)

DeliveryInit == Init /\ mode = "single"

DeliveryNext ==
  \/ InitLaunch
  \/ InitPage
  \/ LoginGoto
  \/ LoginFill
  \/ LoginClick
  \/ LoginClick2
  \/ CaptchaDetect
  \/ CaptchaSitekey
  \/ CaptchaSolve
  \/ CaptchaInject
  \/ CaptchaNav
  \/ VerifyCheck
  \/ VerifyRetry
  \/ LoginReturn
  \/ SendGoto
  \/ SendStatus
  \/ ExtractWait
  \/ ExtractEval
  \/ ChatGoto
  \/ ChatUrlCheck
  \/ ComposerWait
  \/ ComposeEval
  \/ ComposerClick
  \/ LastResort
  \/ SendButton
  \/ PressEnter
  \/ DeliveryCheck
  \/ SingleSave
  \/ SingleCatch
  \/ Finally

\* redditMessenger with sendMessageToUser taken one await at a time.
DeliverySpec == DeliveryInit /\ [][DeliveryNext]_vars

(* ------------------ the users file, input shown ------------------------ *)

\* A batch run about to read a users file whose lines are `usersData`.
ParseInit ==
  /\ InitRun
  /\ mode = "batch"
  /\ usersData \in SeqsUpTo(FileLines, MaxLines)
  /\ sv = NoSend

\* Lines 21-27 on that file.
ParseFile ==
  /\ pc = "load"
  /\ calls' = Bump(calls, "load")
  /\ LoadFrom(usersData)
  /\ UNCHANGED <<usersData, sv, mode, options, target, browser, lv, page, i,
                 results, delay, waits, attempts, saved, outcome>>

ParseNext == ParseFile

ParseSpec == ParseInit /\ [][ParseNext]_vars

(* ------------------------------ claims --------------------------------- *)

RunEnded == outcome # "running"

\* The positions a run passes through once an error left its try block.
Aborting == {CatchPc, "finally", "done"}

IsOk(a) == a.result = "ok"

IsFail(a) == a.result # "ok"

UsersOf(s) == [k \in 1..Len(s) |-> s[k].user]

FailuresOf(s) == [k \in 1..Len(s) |-> [user |-> s[k].user, error |-> s[k].result]]

Recorded == Len(results.success) + Len(results.failed)

IsPrefix(s, t) == Len(s) <= Len(t) /\ SubSeq(t, 1, Len(s)) = s

\* The positions of the batch run after its loop.
AfterLoop ==
  \/ pc \in {"b_catch", "finally", "done"}
  \/ pc = "loop" /\ i >= Len(users)

\* What rejected credentials look like: the address is still the login
\* surface, the login input is still there, no logged-in indicator shows.
Rejected(seen) == seen.loginSurface /\ seen.loginInput /\ ~seen.loggedIn

RejectedTwice ==
  /\ pc = "login_verified"
  /\ lv.first.kind = "verify"
  /\ Rejected(lv.first)
  /\ page.kind = "retry"
  /\ Rejected(page)

\* C1: when a run has ended (returned or thrown), every browser that was
\* launched has been closed exactly once.
C1_BrowserClosedOnExit == RunEnded => calls.close = calls.launch

\* C2: a batch run invokes loginToReddit at most once, exactly once as soon
\* as the browser is initialised and the login step is passed, and before
\* any sendMessageToUser call, whatever the targets and their failures.
C2_LoginOnce ==
  mode = "batch" =>
    /\ calls.login <= 1
    /\ (browser = "handle" /\ pc # "login" => calls.login = 1)
    /\ (calls.send > 0 => calls.login = 1 /\ calls.loginOk = 1)

C2_Witness ==
  /\ mode = "batch"
  /\ outcome = "returned"
  /\ Len(users) = 3
  /\ Len(results.failed) = 2
  /\ calls.login = 1

C4_FailureIsolation ==
  mode = "batch" =>
    /\ Len(attempts) <= Len(users)
    /\ \A k \in 1..Len(attempts) : attempts[k].user = users[k]
    /\ results.success = UsersOf(SelectSeq(attempts, IsOk))
    /\ results.failed = FailuresOf(SelectSeq(attempts, IsFail))
    /\ (calls.loginOk = 1 /\ AfterLoop => Len(attempts) = Len(users))

C4_Witness ==
  /\ mode = "batch"
  /\ outcome = "returned"
  /\ Len(users) = 3
  /\ Len(attempts) = 3
  /\ attempts[1].result = "ok"
  /\ attempts[2].result = ErrNotFound
  /\ attempts[3].result = "ok"
  /\ results.success = <<users[1], users[3]>>
  /\ Len(results.failed) = 1
  /\ results.failed[1].user = users[2]

\* C5: the batch loop handles one target at a time in input order and
\* records exactly one outcome per target: the recorded outcomes number the
\* targets processed so far, a recorded outcome is never removed or changed,
\* and a run that returns has recorded as many outcomes as there are targets.
C5_OneOutcomePerTarget ==
  /\ [](mode = "batch" =>
          /\ Recorded = Len(attempts)
          /\ Recorded = calls.send
          /\ (pc = "loop" => Recorded = i)
          /\ (pc = "pace" => Recorded = i + 1 /\ attempts[i + 1].user = users[i + 1])
          /\ (outcome = "returned" => Recorded = Len(users)))
  /\ [][/\ IsPrefix(results.success, results'.success)
        /\ IsPrefix(results.failed, results'.failed)
        /\ Len(results'.success) + Len(results'.failed) <= Recorded + 1]_vars

C5_Witness ==
  /\ mode = "batch"
  /\ pc = "pace"
  /\ i = 1
  /\ Len(users) = 3
  /\ Len(results.success) = 1
  /\ Len(results.failed) = 1

\* C6: the pacing delay follows every target but the last, succeeded or
\* failed: when attempt i+1 starts exactly i delays have been slept, after
\* the loop over N >= 1 targets exactly N-1, and none for an empty list or
\* in a run that never reached the loop.
C6_PacingDelays ==
  mode = "batch" =>
    /\ Len(waits) <= Len(attempts)
    /\ (pc = "loop" /\ i < Len(users) => Len(waits) = i /\ Recorded = i)
    /\ (pc = "pace" => Len(waits) = i /\ Recorded = i + 1)
    /\ (calls.loginOk = 1 /\ AfterLoop =>
          Len(waits) = IF Len(users) = 0 THEN 0 ELSE Len(users) - 1)
    /\ (calls.loginOk = 0 => waits = <<>>)

C6_Witness ==
  /\ mode = "batch"
  /\ outcome = "returned"
  /\ Len(users) = 3
  /\ Len(waits) = 2
  /\ attempts[2].result # "ok"
  /\ attempts[3].result # "ok"

\* C7: every run that got as far as its one-time authentication has handed
\* a result record to saveResults by the time it ends, aborted runs
\* included.
C7_RecordEmitted == RunEnded /\ calls.login >= 1 => calls.save >= 1

\* C8: credentials rejected at the first check and at the retry (still the
\* login surface, the login input still there, no logged-in indicator) make
\* the login fail.
C8_RejectedLoginFails == RejectedTwice => ~lv.loginSuccess

\* C9: when the first check sees an address free of /login, /register and
\* /error and no login input, the verification has succeeded without the
\* retry, whatever the indicators, and loginToReddit then returns
\* successfully.
C9_UrlAndNoFormVerify ==
  /\ [](lv.first.kind = "verify" /\ lv.first.urlOk /\ ~lv.first.loginInput =>
          /\ pc = "login_verified"
          /\ lv.loginSuccess
          /\ lv.retries = 0)
  /\ [][pc = "login_verified" /\ lv.loginSuccess =>
          /\ pc' = AfterLogin
          /\ calls'.loginOk = 1
          /\ error' = "none"]_vars

C9_Witness ==
  /\ pc = "login_verified"
  /\ lv.first.kind = "verify"
  /\ lv.first.urlOk
  /\ ~lv.first.loginInput
  /\ ~lv.first.loginForm
  /\ ~lv.first.loggedIn
  /\ lv.loginSuccess

\* C10 as stated: a challenge frame that is present and visible, met without
\* a solver, makes handleCaptchaIfPresent throw the challenge error.
C10_VisibleFrameNoSolverFails ==
  page.kind = "captcha" /\ page.iframe /\ page.visible /\ lv.solver = "null"
    => lv.thrown = ErrCaptchaNoKey

\* C10 as amended: a challenge the detection reports (a frame present and
\* visible together with a displayed captcha container or an active
\* challenge element), met without a solver, makes handleCaptchaIfPresent
\* throw the challenge error; then the solving service was not called, no
\* token was injected, no challenge form submitted, the verification not
\* reached, the credentials filled and submitted once only, and the run
\* aborts without a delivery attempt.
C10_DetectedNoSolverFails ==
  /\ (page.kind = "captcha" /\ page.iframe /\ page.visible /\ page.active
        /\ lv.solver = "null"
        => lv.thrown = ErrCaptchaNoKey)
  /\ (lv.thrown = ErrCaptchaNoKey =>
        /\ lv.solver = "null"
        /\ lv.solverCalls = 0
        /\ lv.injected = 0
        /\ lv.captchaSubmit = 0
        /\ lv.verifyCalls = 0
        /\ lv.retries = 0
        /\ lv.creds = 1
        /\ lv.submit = 1
        /\ calls.send = 0
        /\ calls.loginOk = 0
        /\ pc \in Aborting
        /\ (RunEnded => outcome = "thrown"))

C10_Witness ==
  /\ page.kind = "captcha"
  /\ page.iframe /\ page.visible /\ page.active
  /\ lv.thrown = ErrCaptchaNoKey
  /\ outcome = "thrown"

\* The errors handleCaptchaIfPresent raises itself.
CaptchaErrors == {ErrCaptchaNoKey, ErrSitekey, ErrSolver, ErrNullClick}

\* C11: when the detection finds no challenge frame, or one that is not
\* visible, handleCaptchaIfPresent returns without an error whatever the
\* solver is: it leaves the login's locals as they were (no sitekey read,
\* no call of the solving service, no token injected, nothing clicked) and
\* the login goes on to the verification.
C11_NoFrameNotPresent ==
  /\ [](page.kind = "captcha" /\ ~(page.iframe /\ page.visible) =>
          /\ ~lv.captchaRequired
          /\ lv.sitekey = "null"
          /\ lv.token = "none"
          /\ lv.solverCalls = 0
          /\ lv.injected = 0
          /\ lv.captchaSubmit = 0
          /\ lv.submit = 1
          /\ lv.thrown \notin CaptchaErrors)
  /\ [][pc = "captcha" /\ page'.kind = "captcha"
          /\ ~(page'.iframe /\ page'.visible) =>
          pc' = "verify" /\ lv' = lv /\ error' = error]_vars

C11_Witness ==
  /\ pc = "verify"
  /\ page.kind = "captcha"
  /\ page.iframe /\ ~page.visible /\ page.active
  /\ lv.solver = "null"
  /\ lv.thrown = "none"
  /\ error = "none"

\* The positions of a line that hold something else than a space.
Inked(line) == { k \in 1..Len(line) : line[k] # " " }

LeastOf(S) == CHOOSE x \in S : \A y \in S : x <= y

GreatestOf(S) == CHOOSE x \in S : \A y \in S : y <= x

\* A line names a target when it has a first non-space character and that
\* character is not the comment marker.
NamesTarget(line) == Inked(line) # {} /\ line[LeastOf(Inked(line))] # "#"

\* The name on such a line: from its first to its last non-space character.
NameOn(line) == SubSeq(line, LeastOf(Inked(line)), GreatestOf(Inked(line)))

TargetLines == { k \in 1..Len(usersData) : NamesTarget(usersData[k]) }

\* The k-th element of a set of numbers.
NthOf(S, k) == CHOOSE x \in S : Cardinality({ y \in S : y < x }) = k - 1

\* C14: once the users file is parsed, the target sequence is the names on
\* the lines that name a target, one target per such line (so duplicates
\* stay), in the order of the lines; blank lines and comment lines give no
\* target.
C14_TargetsAreKeptLines ==
  pc # "load" =>
    /\ Len(users) = Cardinality(TargetLines)
    /\ \A k \in 1..Len(users) : users[k] = NameOn(usersData[NthOf(TargetLines, k)])
    /\ \A k \in 1..Len(users) : users[k] # <<>> /\ Head(users[k]) # "#"

C14_Witness ==
  /\ pc = "init_launch"
  /\ usersData = << <<"A">>, <<"#", "A">>, <<" ", "A">> >>
  /\ users = << <<"A">>, <<"A">> >>

\* C18: within one login the retry check runs at most once, and only after
\* a first check whose address signal and content signal were both negative;
\* after it the verification reports success whatever the retry saw, so that
\* the verification result is success exactly when no verification script
\* threw.
C18_SingleRetry ==
  /\ [](/\ lv.retries <= 1
        /\ lv.verifyCalls <= 1
        /\ (pc = "verify_retry" \/ lv.retries = 1 =>
              /\ lv.verifyCalls = 1
              /\ lv.first.kind = "verify"
              /\ ~lv.urlIndicatesSuccess
              /\ ~lv.domSuccess)
        /\ (pc = "login_verified" =>
              /\ lv.loginSuccess = ~lv.evalThrew
              /\ (~lv.evalThrew /\ ~lv.urlIndicatesSuccess /\ ~lv.domSuccess
                    => lv.retries = 1 /\ page.kind = "retry")))
  /\ [][pc = "verify_retry" => pc' = "login_verified" /\ lv'.retries = 1]_vars

C18_Witness ==
  /\ RejectedTwice
  /\ lv.retries = 1
  /\ ~lv.evalThrew
  /\ lv.loginSuccess

\* C19: in a single run whose caller supplied no solving credential, the
\* solving service is never called and a detected challenge makes the login
\* throw the challenge error.
C19_DefaultConfigHardStop ==
  mode = "single" /\ options.captchaApiKey = DefaultCaptchaApiKey =>
    /\ lv.solverCalls = 0
    /\ (page.kind = "captcha" /\ page.iframe /\ page.visible /\ page.active
          => lv.thrown = ErrCaptchaNoKey)

\* C17: every batch run eventually ends (returns its report or throws),
\* provided each step that settles by itself is taken, whatever the solving
\* service does.
C17_BatchTerminates == (mode = "batch") ~> (outcome # "running")

(* ------------------ sendMessageToUser: the claims ------------------------ *)

\* What the last profile classification saw.
ProfileRejected ==
  page.kind = "profile" /\ (page.notFoundText \/ page.suspendedText)

\* Nothing of the delivery past the classification has been done.
NothingPastStatus ==
  /\ sv.extractCalls = 0
  /\ sv.chatNav = 0
  /\ sv.composeEvals = 0
  /\ sv.typed = 0
  /\ sv.clicks = 0
  /\ sv.enters = 0

\* C12: in sendMessageToUser, once the profile is classified not-found or
\* suspended the attempt has failed with the reason that names the class,
\* extractChatUrl has not been called, the chat address has not been
\* navigated to, nothing has been composed, typed, clicked or submitted, and
\* nothing of that is done afterwards: the locals of the delivery stay as
\* they are for the rest of the run.
C12_RejectedProfileFailsEarly ==
  /\ [](ProfileRejected =>
          /\ sv.userStatus \in {"not_found", "suspended"}
          /\ sv.result = (IF page.notFoundText THEN ErrNotFound
                          ELSE ErrSuspended)
          /\ attempts = <<[user |-> target, result |-> sv.result]>>
          /\ NothingPastStatus)
  /\ [][sv.userStatus \in {"not_found", "suspended"} => sv' = sv]_vars

\* C12 witness: a suspended account's attempt has failed and the run is over.
C12_Witness ==
  /\ ProfileRejected
  /\ ~page.notFoundText
  /\ sv.result = ErrSuspended
  /\ outcome = "thrown"


\* The errors of the failure records written so far.
SavedErrors ==
  UNION { { saved[k].failed[j].error : j \in 1..Len(saved[k].failed) } :
            k \in 1..Len(saved) }

\* C13: after the delivery check of sendMessageInChatInterface, a failure
\* phrase on the page means the attempt failed with the delivery error,
\* also when a success indicator is on the page as well, and no success
\* record is written; without a failure phrase, with a success indicator
\* ("sent") or with neither ("unknown"), the attempt did not fail: it is
\* recorded as delivered and no failure record names the delivery error.
C13_DeliveryConfirmation ==
  page.kind = "delivery" =>
    /\ sv.deliveryStatus = (IF page.failPhrase THEN "failed"
                            ELSE IF page.sentMark THEN "sent" ELSE "unknown")
    /\ page.failPhrase =>
         /\ sv.result = ErrDelivery
         /\ attempts = <<[user |-> target, result |-> ErrDelivery]>>
         /\ \A k \in 1..Len(saved) : saved[k].prefix # "single-message"
    /\ ~page.failPhrase =>
         /\ sv.result = "ok"
         /\ attempts = <<[user |-> target, result |-> "ok"]>>
         /\ ErrDelivery \notin SavedErrors

\* C13 witness: both signals on the page, and the failure record written.
C13_Witness ==
  /\ page.kind = "delivery"
  /\ page.failPhrase
  /\ page.sentMark
  /\ SavedErrors = {ErrDelivery}


\* C15: after extractChatUrl's script, the address returned is the one of
\* the first strategy, in the order five specific selectors, three fallback
\* selectors, scan, that yields an anchor with a chat-domain address: so on
\* a page where only the Nth strategy yields one, it is the Nth strategy's;
\* null is returned exactly when no strategy yields one; and the script
\* changes nothing but the value it returns: no navigation, typing, click or
\* key press is made by it.
C15_FirstStrategyWins ==
  /\ [](page.kind = "links" =>
          /\ page.hits = {} <=> sv.chatUrl = NoChatUrl
          /\ page.hits # {} =>
               /\ sv.chatUrl.by = LeastOf(page.hits)
               /\ sv.chatUrl.el \in 1..page.anchors
               /\ sv.chatUrl.href \in {"user", "chat"}
          /\ sv.chatUrl = NoChatUrl => sv.result = ErrNoChat)
  /\ [][pc = "m_extract" =>
          /\ [sv' EXCEPT !.chatUrl = sv.chatUrl, !.result = sv.result] = sv
          /\ calls' = calls
          /\ browser' = browser]_vars

\* C15 witness: only the scan yields an anchor, and its address is returned.
C15_Witness ==
  /\ page.kind = "links"
  /\ page.hits = {9}
  /\ sv.chatUrl.by = 9
  /\ sv.chatUrl.href = "chat"
  /\ pc = "m_chat"


\* The login has failed: loginToReddit threw, and no delivery is attempted.
LoginFailedBy(e) ==
  /\ lv.thrown = e
  /\ error # "none"
  /\ attempts = <<>>
  /\ calls.loginOk = 0
  /\ pc \in {"s_catch", "b_catch", "finally", "done"}

\* The target's attempt has failed with e.
AttemptFailedBy(e) ==
  /\ sv.result = e
  /\ attempts = <<[user |-> target, result |-> e]>>
  /\ error # "none"

\* C16 as stated: whenever the timeout of a bounded wait has elapsed, the
\* enclosing step has failed: the login has thrown, or the target's attempt
\* has ended with an error.
C16_EveryTimeoutFails ==
  /\ lv.timedOut # "none" => lv.thrown # "none"
  /\ sv.timedOut # "none" => sv.result \notin {"none", "ok"}

\* C16 amended: the timeout of the login page's navigation, of the waits for
\* the two login inputs and of the post-challenge transition makes the login
\* fail, and the timeout of the profile navigation, of the wait for a button
\* or an anchor and of the chat navigation makes the target's attempt fail;
\* the timeouts of the navigation wait of verifyLoginSuccess and of the wait
\* for the composer are caught: the step after the composer wait is the
\* compose script, with no error raised.
C16_UncaughtTimeoutFails ==
  /\ [](/\ lv.timedOut \in {"goto", "selector", "captchaNav"} =>
             LoginFailedBy(ErrBrowser)
        /\ sv.timedOut \in {"profile", "links", "chat"} =>
             AttemptFailedBy(ErrBrowser)
        /\ lv.timedOut \in {"none", "goto", "selector", "captchaNav",
                            "verifyNav"}
        /\ sv.timedOut \in {"none", "profile", "links", "chat", "composer"})
  /\ [][pc = "c_wait" => pc' = "c_compose" /\ error' = error]_vars

\* C16 witness: the post-challenge transition timed out and the run ended
\* with the login's error, no delivery attempted.
C16_Witness ==
  /\ lv.timedOut = "captchaNav"
  /\ LoginFailedBy(ErrBrowser)
  /\ outcome = "thrown"
  /\ error = ErrBrowser


\* C20: findTextareaInShadowDom, started from the message composer, returns
\* null only if no editable field lies in the composer, its light DOM, its
\* shadow tree, or, through their shadow roots, in the nested auto-size
\* component, the custom children of the message box or the custom children
\* of the shadow root: whenever a field lies there, the search finds one.
C20_NullOnlyIfUnreachable ==
  (page.kind = "compose" /\ page.composer /\ page.within) => page.found


(* ------------- sendMessageInChatInterface: the claims -------------------- *)

\* What tier n of the compose script found on the page last looked at.
TierFinds(n) ==
  CASE n = 1 -> page.composer /\ page.found
    [] n = 2 -> page.direct
    [] n = 3 -> page.boxArea
    [] n = 4 -> page.autoFound

\* C21: the compose script sets the text through the first of its four tiers
\* (composer shadow descent, direct selectors, message-box field, auto-size
\* component) that finds a field, and through none when none finds one; the
\* click-and-keystroke typing is done only when the script has not set the
\* text, at most once, and once the text is in, by the script or by typing,
\* no step types again.
C21_TiersInOrder ==
  /\ [](/\ page.kind = "compose" =>
             /\ page.tier \in 0..4
             /\ \A n \in 1..4 :
                  page.tier = n <=>
                    TierFinds(n) /\ \A m \in 1..(n - 1) : ~TierFinds(m)
             /\ sv.messageSent <=> (page.tier # 0 /\ page.typeOk)
        /\ sv.messageSent => sv.typed = 0
        /\ sv.composeEvals <= 1
        /\ sv.typed <= 1)
  /\ [][sv'.typed # sv.typed =>
          /\ ~sv.messageSent
          /\ sv.typed = 0
          /\ sv.composeEvals = 1
          /\ pc \in {"c_click", "c_last"}]_vars

\* C21 witness: the composer and the direct selectors find nothing, the
\* message-box field takes the text, and the flow is at the send button
\* with nothing typed.
C21_Witness ==
  /\ page.kind = "compose"
  /\ page.tier = 3
  /\ ~TierFinds(1)
  /\ ~TierFinds(2)
  /\ sv.messageSent
  /\ sv.typed = 0
  /\ pc = "c_button"


\* The tiers of the send-button search that found a button on the page
\* last looked at.
ButtonTiers ==
  { n \in 1..3 :
      (CASE n = 1 -> page.exact [] n = 2 -> page.partial
         [] n = 3 -> page.icon) # "none" }

\* C22: in the submit step at most one submit signal is issued, and exactly
\* one once the step is over: a single click, on the button of the first
\* tier (exact selector, partial selectors, icon) that found one, or, only
\* when no tier found a button, a single Enter; never a click and an Enter.
C22_OneSubmitSignal ==
  /\ [](/\ sv.clicks + sv.enters <= 1
        /\ sv.enters = 1 => ~sv.sendButtonClicked
        /\ page.kind = "button" =>
             /\ page.tier = (IF ButtonTiers = {} THEN 0
                             ELSE LeastOf(ButtonTiers))
             /\ sv.clicks = (IF ButtonTiers = {} THEN 0 ELSE 1)
             /\ sv.sendButtonClicked <=> ButtonTiers # {}
        /\ pc = "c_delivery" => sv.clicks + sv.enters = 1
        /\ sv.result \in {"ok", ErrDelivery} => sv.clicks + sv.enters = 1)
  /\ [][sv'.enters # sv.enters =>
          page.kind = "button" /\ ButtonTiers = {} /\ sv.clicks = 0]_vars

\* C22 witness: no tier found a button, Enter was pressed once, and the
\* message went through.
C22_Witness ==
  /\ sv.enters = 1
  /\ sv.clicks = 0
  /\ sv.result = "ok"


\* C23: the control an ordered fallback triggers is never a disabled one:
\* the send step has not clicked a disabled button, and the login's form
\* match has not clicked a disabled submit control.
C23_NeverTriggersDisabled ==
  /\ page.kind = "button" => page.clicked # "disabled"
  /\ page.kind = "form" => page.look # "disabledButton"


(* ------------------- loginToReddit: the submit control ------------------- *)

\* C24: the login's submit control is triggered through the form match, then
\* the labelled button, then the first enabled button: the second attempt
\* is made only when the form match triggered nothing, within it the
\* labelled enabled button goes before the first enabled button, one
\* trigger and no more has been issued once challenge handling starts, and
\* when no tier finds a control the login fails at once with the
\* button-not-found error, before challenge handling and verification.
C24_SubmitFallback ==
  /\ [](/\ lv.submit <= 1
        /\ lv.clicked <=> lv.submit = 1
        /\ pc \in {"captcha", "captcha_sitekey", "captcha_solve",
                   "captcha_inject", "captcha_nav", "verify", "verify_retry",
                   "login_verified"} => lv.submit = 1
        /\ page.kind = "form" => (lv.submit = 1 <=> page.look # "none")
        /\ page.kind = "buttons" =>
             /\ page.tier = (IF page.labelled = "enabled" THEN 2
                             ELSE IF page.anyEnabled THEN 3 ELSE 0)
             /\ lv.submit = (IF page.tier = 0 THEN 0 ELSE 1)
             /\ page.tier = 0 =>
                  /\ lv.thrown = ErrLoginButton
                  /\ lv.captchaRequired = FALSE
                  /\ lv.solverCalls = 0
                  /\ lv.verifyCalls = 0
                  /\ calls.loginOk = 0
                  /\ attempts = <<>>)
  /\ [][pc' = "login_click2" /\ pc # "login_click2" =>
          /\ pc = "login_click"
          /\ page'.kind = "form"
          /\ page'.look = "none"
          /\ lv'.submit = 0]_vars

\* C24 witness: the form match and the labelled button gave nothing, the
\* first enabled button was clicked, and challenge handling is next.
C24_Witness ==
  /\ page.kind = "buttons"
  /\ page.labelled = "disabled"
  /\ page.tier = 3
  /\ lv.submit = 1
  /\ pc = "captcha"


(* ------------------- handleCaptchaIfPresent: the claims ------------------ *)

\* C25: whenever the challenge form has been submitted, the response field
\* holds the token the solving service returned.
C25_SubmitAfterInjection ==
  lv.captchaSubmit > 0 =>
    /\ lv.injected = 1
    /\ page.kind = "inject" => page.response = lv.token /\ lv.token # "none"


\* C26: the solving service is called at most once in a login, and only
\* with a detected challenge, a solver and a site-key; a missing site-key
\* fails the login with no call; a failing call fails the login with the
\* service's error: no token, no injection, no submission, no verification,
\* no delivery attempt, and the run ends by throwing.
C26_SolverCallGuarded ==
  /\ lv.solverCalls <= 1
  /\ calls.login <= 1
  /\ lv.solverCalls = 1 =>
       /\ lv.captchaRequired
       /\ lv.solver # "null"
       /\ lv.sitekey \notin {"null", ""}
  /\ lv.thrown = ErrSitekey =>
       /\ lv.solverCalls = 0
       /\ lv.injected = 0
       /\ lv.captchaSubmit = 0
       /\ attempts = <<>>
  /\ lv.thrown = ErrSolver =>
       /\ lv.solverCalls = 1
       /\ lv.token = "none"
       /\ lv.injected = 0
       /\ lv.captchaSubmit = 0
       /\ lv.verifyCalls = 0
       /\ calls.loginOk = 0
       /\ calls.send = 0
       /\ attempts = <<>>
       /\ error # "none"
       /\ RunEnded => outcome = "thrown"

\* C26 witness: the service call failed and the run has ended with an error.
C26_Witness ==
  /\ lv.thrown = ErrSolver
  /\ lv.solverCalls = 1
  /\ outcome = "thrown"


(* ------------- sendMessageToUser: entry point and destination ------------ *)

\* Something of the compose or submit steps has been done.
ComposeBegun ==
  sv.composeEvals + sv.typed + sv.clicks + sv.enters > 0

\* C27: the compose and submit steps are reached only with a chat address
\* found on the profile and one navigation to it; with no chat address at
\* any selector level the attempt fails with the no-chat reason and the chat
\* surface is not navigated to; with an address off the chat domain after
\* the navigation the attempt fails and nothing is composed or submitted.
C27_ComposeAfterVerifiedChat ==
  /\ ComposeBegun => sv.chatUrl.by \in 1..9 /\ sv.chatNav = 1
  /\ sv.result = ErrNoChat =>
       /\ sv.chatUrl = NoChatUrl
       /\ sv.chatNav = 0
       /\ ~ComposeBegun
  /\ (page.kind = "chat" /\ ~page.onChatDomain) =>
       /\ sv.result = ErrNotChatPage
       /\ ~ComposeBegun
  /\ sv.result = ErrNotChatPage => ~ComposeBegun

\* The part of C27 that the code keeps: entry point first, and an address
\* that does not name the chat domain at all stops the attempt.
C27_EntryPointFirst ==
  /\ ComposeBegun => sv.chatUrl.by \in 1..9 /\ sv.chatNav = 1
  /\ sv.result = ErrNoChat =>
       /\ sv.chatUrl = NoChatUrl
       /\ sv.chatNav = 0
       /\ ~ComposeBegun
  /\ (page.kind = "chat" /\ page.address = "other") =>
       /\ sv.result = ErrNotChatPage
       /\ ~ComposeBegun


(* ---------------------- redditMessenger: the record ---------------------- *)

\* The target's delivery was completed: sendMessageToUser returned true.
Delivered == \E k \in 1..Len(attempts) : IsOk(attempts[k])

\* The records written that list the target as failed.
FailureRecords ==
  { k \in 1..Len(saved) :
      \E j \in 1..Len(saved[k].failed) : saved[k].failed[j].user = target }

\* C28: a single run that has ended has written exactly one record, a
\* success record or a failure record; and no run writes a record that
\* lists the target as failed after sendMessageToUser returned true.
C28_OneRecordMatchingDelivery ==
  mode = "single" =>
    /\ Len(saved) <= 1
    /\ RunEnded => Len(saved) = 1
    /\ Delivered => FailureRecords = {}

\* The part of C28 about delivered targets alone.
C28_NoFailureRecordIfDelivered ==
  (mode = "single" /\ Delivered) => FailureRecords = {}


(* -------------------- processOptimizedBatch: the claims ------------------ *)

\* C29: every pause made between two batch targets lasts the delay the
\* caller configured, a configured zero included, and lasts the default of
\* 30000 ms only when the caller configured none.
C29_ConfiguredDelayApplied ==
  mode = "batch" =>
    \A k \in 1..Len(waits) :
      waits[k] = (IF options.delay = <<>> THEN DefaultDelay
                  ELSE options.delay[1])


\* C30: every record a batch run hands to saveResults has the list of
\* successful targets, the list of failures, each with the target and the
\* reason, and a configuration snapshot.
C30_BatchReportShape ==
  \A k \in 1..Len(saved) :
    saved[k].prefix = "batch" =>
      /\ {"success", "failed", "configuration"} \subseteq saved[k].keys
      /\ \A j \in 1..Len(saved[k].failed) :
           {"user", "error"} \subseteq DOMAIN saved[k].failed[j]


====
